---- MODULE Spec2Model ----
(***************************************************************************)
(* Model of the Ubuntu resolver of it-depends                              *)
(* (it_depends/ubuntu/resolver.py) and of the memoized file lookup of      *)
(* it_depends/utils.py.                                                    *)
(*                                                                         *)
(* Strings are sequences of one-character (or one-token) strings, versions *)
(* are their major number, a SimpleSpec is a record [op, ver].             *)
(***************************************************************************)
EXTENDS Integers, Sequences, FiniteSets, TLC

VARIABLES
    \* ---- ubuntu_packages (the parsing loop) ----
    contents,       \* the decoded output of `apt show -a`, a sequence of lines
    lineNo,         \* index of the next line the loop reads
    version,        \* the local `version`: <<>> is None, <<v>> a Version
    deps,           \* the local `deps` of the last "Depends: " line
    packages,       \* the local `packages`
    pcParse         \* "idle" | "loop" | "done"

varsParse == <<contents, lineNo, version, deps, packages, pcParse>>

VARIABLES
    \* ---- UbuntuResolver.resolve ----
    lruPackages,    \* the lru_cache of ubuntu_packages, least recently used first
    dependency,     \* the argument of the last resolve call
    outcome,        \* "none" | "returned" | "raised"
    yielded,        \* the Packages the last call yielded
    lookedUp,       \* the last call looked a name up in the lru_cache
    queried,        \* the last call ran a backend command
    failed          \* the backend command of the last call failed

varsResolve == <<lruPackages, dependency, outcome, yielded, lookedUp, queried, failed>>

VARIABLES
    \* ---- the memoized lookups, called directly ----
    lruFile,        \* the lru_cache of file_to_package
    lruAptFile,     \* the lru_cache of _file_to_package_apt_file
    call,           \* the last memoized call: [fn, raised, queried] and, when it
                    \* was for the watched key, [hadMemo, sameAsMemo, since]
    history         \* of the watched lookup [fn, key]: what it last returned, and
                    \* the other keys that returned a result since

varsMemo == <<lruFile, lruAptFile, call, history>>

VARIABLES
    \* ---- sorting the applicable resolvers ----
    resolvers,      \* the resolvers, by name, in the order they are handed to the sort
    sortedResolvers,\* the sorted list
    pcSort,         \* "unsorted" | "sorted"
    \* ---- the augmentation of one Package ----
    pkg,            \* the Package
    origin,         \* what built it: "ubuntu_packages" | "resolve" | "other"
    nativeDeps,     \* what get_native_dependencies(pkg) yields
    deps0,          \* pkg.dependencies before the first update_dependencies
    calls,          \* the number of update_dependencies calls so far
    caller          \* who made the last one: "" | "direct" | "engine"

varsSort == <<resolvers, sortedResolvers, pcSort>>
varsAugment == <<pkg, origin, nativeDeps, deps0, calls, caller>>

vars == <<varsParse, varsResolve, varsMemo, varsSort, varsAugment>>

(***************************************************************************)
(* Bounds                                                                  *)
(***************************************************************************)
MaxLines == 3
MaxCalls == 3
\* the size of the lru_caches, scaled down from maxsize=2048 and maxsize=128
PackagesCacheSize == 2
FileCacheSize == 2

(***************************************************************************)
(* Helpers on sequences                                                    *)
(***************************************************************************)
RECURSIVE SeqsUpTo(_, _)
SeqsUpTo(S, n) ==
    IF n = 0 THEN {<<>>}
    ELSE LET shorter == SeqsUpTo(S, n - 1)
         IN  shorter \cup {Append(s, x) : s \in {t \in shorter : Len(t) = n - 1}, x \in S}

Range(s) == {s[i] : i \in 1..Len(s)}

Digits == {"0", "1", "2", "3"}

DigitVal(c) == CASE c = "0" -> 0 [] c = "1" -> 1 [] c = "2" -> 2 [] c = "3" -> 3

\* length of the longest prefix of s made of digits
RECURSIVE DigitRun(_)
DigitRun(s) ==
    IF s # <<>> /\ Head(s) \in Digits THEN 1 + DigitRun(Tail(s)) ELSE 0

RECURSIVE DecimalValue(_, _)
DecimalValue(s, acc) ==
    IF s = <<>> THEN acc ELSE DecimalValue(Tail(s), 10 * acc + DigitVal(Head(s)))

\* str.replace(" ", "")
RECURSIVE RemoveSpaces(_)
RemoveSpaces(s) ==
    IF s = <<>> THEN <<>>
    ELSE IF Head(s) = " " THEN RemoveSpaces(Tail(s))
    ELSE <<Head(s)>> \o RemoveSpaces(Tail(s))

(***************************************************************************)
(* Version and SimpleSpec (the semantic_version library, as the resolver   *)
(* uses it)                                                                *)
(***************************************************************************)
\* Version.coerce(s): the leading number of s; fails without one.
CoerceOk(s) == DigitRun(s) > 0
VersionCoerce(s) == DecimalValue(SubSeq(s, 1, DigitRun(s)), 0)

Star == [op |-> "*", ver |-> 0]
SimpleOps == {"<", "<=", "=", "==", ">=", ">", "!="}

\* does SimpleSpec(s) parse?  s is a sequence of tokens
SimpleSpecOk(s) ==
    \/ s = <<"*">>
    \/ /\ s # <<>>
       /\ Head(s) \in SimpleOps
       /\ Len(s) > 1
       /\ DigitRun(Tail(s)) = Len(s) - 1
    \/ /\ s # <<>>
       /\ DigitRun(s) = Len(s)

SimpleSpec(s) ==
    IF s = <<"*">> THEN Star
    ELSE IF Head(s) \in SimpleOps
         THEN [op |-> IF Head(s) = "=" THEN "==" ELSE Head(s), ver |-> DecimalValue(Tail(s), 0)]
         ELSE [op |-> "==", ver |-> DecimalValue(s, 0)]

\* `v in spec`
Matches(v, spec) ==
    CASE spec.op = "*"  -> TRUE
      [] spec.op = "<"  -> v < spec.ver
      [] spec.op = "<=" -> v <= spec.ver
      [] spec.op = "==" -> v = spec.ver
      [] spec.op = ">=" -> v >= spec.ver
      [] spec.op = ">"  -> v > spec.ver
      [] spec.op = "!=" -> v # spec.ver

(***************************************************************************)
(* The output of `apt show -a`: a sequence of lines.  A line is            *)
(*   [key, text, entries]: "Version: <text>", "Depends: <entries>", or any *)
(* other line.  An entry of a Depends line is the text between two commas: *)
(*   [package, paren, text]: `package` or `package (text)`.                *)
(***************************************************************************)
VersionLine(text)    == [key |-> "Version", text |-> text, entries |-> <<>>]
DependsLine(entries) == [key |-> "Depends", text |-> <<>>, entries |-> entries]
OtherLine            == [key |-> "Package", text |-> <<>>, entries |-> <<>>]

Entry(package, paren, text) == [package |-> package, paren |-> paren, text |-> text]

EntryLibc   == Entry("libc6", TRUE, <<">=", " ", "2">>)      \* libc6 (>= 2)
EntryGcc    == Entry("libgcc-s1", FALSE, <<>>)               \* libgcc-s1
EntryEpoch  == Entry("libssl", TRUE, <<"=", " ", "1", ":", "1">>)   \* libssl (= 1:1)
EntryLtLt   == Entry("zlib1g", TRUE, <<"<<", " ", "2">>)     \* zlib1g (<< 2)

VersionTexts == { <<"1">>, <<"2">>, <<"1", ":", "2", "-", "1">> }
DependsEntries == { <<EntryLibc>>, <<EntryGcc, EntryEpoch>>, <<EntryLtLt, EntryLibc>> }

LineUniverse ==
    {VersionLine(t) : t \in VersionTexts}
        \cup {DependsLine(e) : e \in DependsEntries}
        \cup {OtherLine}

Contents == SeqsUpTo(LineUniverse, MaxLines)

(***************************************************************************)
(* Package and Dependency                                                  *)
(***************************************************************************)
UbuntuName == "ubuntu"

\* a `source` argument: a resolver instance or a plain string
ResolverInstance(n) == [kind |-> "resolver", name |-> n]
SourceString(n)     == [kind |-> "str", name |-> n]

\* the constructors keep the name of a resolver given as source
Dependency(package, semantic_version, source) ==
    [package |-> package, semantic_version |-> semantic_version, source |-> source.name]

Package(name, ver, source, dependencies) ==
    [name |-> name, version |-> ver, source |-> source.name, dependencies |-> dependencies]

(***************************************************************************)
(* UbuntuResolver.ubuntu_packages: the body of the loop                    *)
(***************************************************************************)
\* _ubuntu_version: ([0-9]+:)*(?P<version>[^-]*)(-.*)*  -- group "version"
RECURSIVE StripEpochs(_)
StripEpochs(s) ==
    LET n == DigitRun(s)
    IN  IF n > 0 /\ Len(s) > n /\ s[n + 1] = ":"
        THEN StripEpochs(SubSeq(s, n + 2, Len(s)))
        ELSE s

RECURSIVE UpToDash(_)
UpToDash(s) ==
    IF s = <<>> \/ Head(s) = "-" THEN <<>> ELSE <<Head(s)>> \o UpToDash(Tail(s))

ubuntu_version(text) == UpToDash(StripEpochs(text))

\* lines 56-65: the (dep_package, dep_version) pair of one entry
DepPair(entry) ==
    LET dep_version == RemoveSpaces(entry.text)
    IN  IF entry.paren /\ SimpleSpecOk(dep_version)
        THEN <<entry.package, dep_version>>
        ELSE <<entry.package, <<"*">> >>

DepPairs(entries) == [j \in 1..Len(entries) |-> DepPair(entries[j])]

\* lines 67-78
BuildPackage(package_name, ver, pairs) ==
    Package(package_name, ver, ResolverInstance(UbuntuName),
            {Dependency(pairs[j][1], SimpleSpec(pairs[j][2]), ResolverInstance(UbuntuName))
                : j \in 1..Len(pairs)})

\* the loop's local state
LoopState(ver, d, pkgs, raised) ==
    [version |-> ver, deps |-> d, packages |-> pkgs, raised |-> raised]

LoopStart == LoopState(<<>>, <<>>, <<>>, FALSE)

\* LoopBody without line 79 (`version = None`): the version stays pending
LoopBodyKeepsVersion(package_name, st, line) ==
    IF line.key = "Version"
    THEN LET matched == ubuntu_version(line.text)
         IN  IF CoerceOk(matched)
             THEN [st EXCEPT !.version = <<VersionCoerce(matched)>>]
             ELSE [st EXCEPT !.raised = TRUE]
    ELSE IF st.version # <<>> /\ line.key = "Depends"
    THEN LET pairs == DepPairs(line.entries)
         IN  LoopState(st.version, pairs,
                       Append(st.packages, BuildPackage(package_name, st.version[1], pairs)),
                       FALSE)
    ELSE st

\* lines 44-79: one iteration
LoopBody(package_name, st, line) ==
    IF line.key = "Version"
    THEN LET matched == ubuntu_version(line.text)
         IN  IF CoerceOk(matched)
             THEN [st EXCEPT !.version = <<VersionCoerce(matched)>>]
             ELSE [st EXCEPT !.raised = TRUE]
    ELSE IF st.version # <<>> /\ line.key = "Depends"
    THEN LET pairs == DepPairs(line.entries)
         IN  LoopState(<<>>, pairs,
                       Append(st.packages, BuildPackage(package_name, st.version[1], pairs)),
                       FALSE)
    ELSE st

PackageNames == {"libc6", "zlib1g"}

IdleParse ==
    /\ lineNo = 0
    /\ version = <<>>
    /\ deps = <<>>
    /\ packages = <<>>
    /\ pcParse = "idle"

NoDependency == [package |-> "", semantic_version |-> Star, source |-> ""]

IdleResolve ==
    /\ lruPackages = <<>>
    /\ dependency = NoDependency
    /\ outcome = "none"
    /\ yielded = <<>>
    /\ lookedUp = FALSE
    /\ queried = FALSE
    /\ failed = FALSE

NoHistory(fn, key) == [fn |-> fn, key |-> key, value |-> <<>>, since |-> {}]

NoCall == [fn |-> "", raised |-> FALSE, queried |-> FALSE,
           hadMemo |-> FALSE, sameAsMemo |-> FALSE, since |-> 0]

IdleMemo ==
    /\ lruFile = <<>>
    /\ lruAptFile = <<>>
    /\ call = NoCall
    /\ history = NoHistory("", "")

IdleSort ==
    /\ resolvers = <<>>
    /\ sortedResolvers = <<>>
    /\ pcSort = "unsorted"

IdleAugment ==
    /\ pkg = [name |-> "", version |-> 0, source |-> "", dependencies |-> {}]
    /\ origin = ""
    /\ nativeDeps = {}
    /\ deps0 = {}
    /\ calls = 0
    /\ caller = ""

InitParse ==
    /\ contents \in [name : PackageNames, lines : Contents]
    /\ IdleParse
    /\ IdleResolve
    /\ IdleMemo
    /\ IdleSort
    /\ IdleAugment

\* lines 32-42
ParseStart ==
    /\ pcParse = "idle"
    /\ IF contents.lines = <<>>
       THEN pcParse' = "done" /\ lineNo' = lineNo
       ELSE pcParse' = "loop" /\ lineNo' = 1
    /\ UNCHANGED <<contents, version, deps, packages, varsResolve, varsMemo, varsSort, varsAugment>>

\* lines 43-79
ParseLine ==
    /\ pcParse = "loop"
    /\ lineNo <= Len(contents.lines)
    /\ LET st == LoopBody(contents.name, LoopState(version, deps, packages, FALSE),
                          contents.lines[lineNo])
       IN  /\ version' = st.version
           /\ deps' = st.deps
           /\ packages' = st.packages
           /\ pcParse' = IF st.raised THEN "raised" ELSE "loop"
    /\ lineNo' = lineNo + 1
    /\ UNCHANGED <<contents, varsResolve, varsMemo, varsSort, varsAugment>>

\* line 80
ParseReturn ==
    /\ pcParse = "loop"
    /\ lineNo > Len(contents.lines)
    /\ pcParse' = "done"
    /\ UNCHANGED <<contents, lineNo, version, deps, packages, varsResolve, varsMemo, varsSort, varsAugment>>

NextParse == ParseStart \/ ParseLine \/ ParseReturn

SpecParse == InitParse /\ [][NextParse]_vars

(***************************************************************************)
(* Properties of the parsing loop                                          *)
(***************************************************************************)
\* the number of lines the loop has read
LinesRead ==
    CASE pcParse = "idle" -> 0
      [] pcParse = "done" -> Len(contents.lines)
      [] OTHER            -> lineNo - 1

KeyAt(k) == contents.lines[k].key

\* the "Version: " lines before line d that no line between them and d replaces
\* (a later "Version: ") or consumes (an earlier "Depends: ")
PendingVersionLines(d) ==
    {v \in 1..(d - 1) :
        /\ KeyAt(v) = "Version"
        /\ \A k \in (v + 1)..(d - 1) : KeyAt(k) \notin {"Version", "Depends"}}

RECURSIVE ExpectedVersions(_)
ExpectedVersions(n) ==
    IF n = 0 THEN <<>>
    ELSE IF KeyAt(n) = "Depends" /\ PendingVersionLines(n) # {}
    THEN LET v == CHOOSE x \in PendingVersionLines(n) : TRUE
         IN  Append(ExpectedVersions(n - 1),
                    VersionCoerce(ubuntu_version(contents.lines[v].text)))
    ELSE ExpectedVersions(n - 1)

\* C10: each Package is built from one "Depends: " line and the nearest
\* preceding "Version: " line that no earlier "Depends: " line has consumed; a
\* "Depends: " line without a pending "Version: " line builds nothing, so
\* there are never more Packages than "Version: " lines.
C10_PackagePerPendingVersion ==
    pcParse \in {"loop", "done"} =>
        /\ [k \in 1..Len(packages) |-> packages[k].version] = ExpectedVersions(LinesRead)
        /\ Len(packages) <= Cardinality({v \in 1..LinesRead : KeyAt(v) = "Version"})

\* a run that read a "Depends: " line with no pending version after one that had one
C10_Witness ==
    /\ pcParse = "done"
    /\ Len(packages) = 1
    /\ \E d \in 1..Len(contents.lines) :
            /\ KeyAt(d) = "Depends"
            /\ PendingVersionLines(d) = {}
            /\ \E e \in 1..(d - 1) : KeyAt(e) = "Depends" /\ PendingVersionLines(e) # {}

\* the entry carries a constraint and SimpleSpec rejects it
Unparsable(entry) == entry.paren /\ ~SimpleSpecOk(RemoveSpaces(entry.text))

\* C5: the Dependency built for an entry whose constraint cannot be parsed is
\* not given the match-everything constraint "*".
C5_NoSilentWildcard ==
    (/\ pcParse = "loop"
     /\ LinesRead >= 1
     /\ KeyAt(LinesRead) = "Depends"
     /\ PendingVersionLines(LinesRead) # {})
    => \A j \in 1..Len(contents.lines[LinesRead].entries) :
          LET entry == contents.lines[LinesRead].entries[j]
          IN  Unparsable(entry) =>
                /\ deps[j] # <<entry.package, <<"*">> >>
                /\ ~\E d \in packages[Len(packages)].dependencies :
                        d.package = entry.package /\ d.semantic_version = Star

(***************************************************************************)
(* functools.lru_cache: a sequence of [key, value, from], least recently   *)
(* used first.  `from` records the backend answer the value was computed   *)
(* from; the program does not read it.                                     *)
(***************************************************************************)
CacheEntry(key, value, from) == [key |-> key, value |-> value, from |-> from]

CacheKeys(cache) == {cache[i].key : i \in 1..Len(cache)}

CacheIndex(cache, key) == CHOOSE i \in 1..Len(cache) : cache[i].key = key

CacheWithout(cache, i) == SubSeq(cache, 1, i - 1) \o SubSeq(cache, i + 1, Len(cache))

\* a hit that leaves the order alone: first in, first out
CacheTouchKeepsOrder(cache, key) == cache

\* a hit moves the entry to the most recently used end
CacheTouch(cache, key) ==
    LET i == CacheIndex(cache, key)
    IN  Append(CacheWithout(cache, i), cache[i])

\* a miss that returned: insert, evicting the least recently used entry when full
CacheInsert(cache, maxsize, entry) ==
    IF Len(cache) >= maxsize
    THEN Append(Tail(cache), entry)
    ELSE Append(cache, entry)

(***************************************************************************)
(* UbuntuResolver.ubuntu_packages                                          *)
(***************************************************************************)
\* what `apt show -a <name>` answers: the command fails, or prints lines
AptFails == [fails |-> TRUE, lines |-> <<>>]
AptPrints(lines) == [fails |-> FALSE, lines |-> lines]

RECURSIVE ParseLines(_, _, _)
ParseLines(package_name, st, lines) ==
    IF lines = <<>> \/ st.raised THEN st
    ELSE ParseLines(package_name, LoopBody(package_name, st, Head(lines)), Tail(lines))

\* lines 28-80, the function under the lru_cache: [raised, value]
ubuntu_packages_uncached(package_name, answer) ==
    IF answer.fails THEN [raised |-> TRUE, value |-> <<>>]
    ELSE IF answer.lines = <<>> THEN [raised |-> FALSE, value |-> <<>>]
    ELSE LET st == ParseLines(package_name, LoopStart, answer.lines)
         IN  [raised |-> st.raised, value |-> IF st.raised THEN <<>> ELSE st.packages]

\* lines 26-28: the memoized call: [cache, raised, value, queried]
ubuntu_packages(cache, package_name, answer) ==
    IF package_name \in CacheKeys(cache)
    THEN [cache |-> CacheTouch(cache, package_name), raised |-> FALSE,
          value |-> cache[CacheIndex(cache, package_name)].value, queried |-> FALSE]
    ELSE LET r == ubuntu_packages_uncached(package_name, answer)
         IN  [cache |-> IF r.raised THEN cache
                        ELSE CacheInsert(cache, PackagesCacheSize,
                                         CacheEntry(package_name, r.value, answer.lines)),
              raised |-> r.raised, value |-> r.value, queried |-> TRUE]

(***************************************************************************)
(* UbuntuResolver.resolve                                                  *)
(***************************************************************************)
IsPath(name) == name \in {"/lib/libz.so", "/lib/libc.so"}    \* startswith("/")

\* what file_to_packages(path) answers: an error, or the owning packages
FileFails(error) == [error |-> error, names |-> <<>>]
FileOwners(names) == [error |-> "", names |-> names]

CaughtErrors == {"ValueError", "CalledProcessError"}

\* lines 86-104, consumed to its end:
\* [cache, outcome, yielded, lookedUp, queried, failed]
resolveUbuntu(cache, dep, apt, file) ==
    IF IsPath(dep.package)
    THEN IF file.error # ""
         THEN [cache |-> cache,
               outcome |-> IF file.error \in CaughtErrors THEN "returned" ELSE "raised",
               yielded |-> <<>>, lookedUp |-> FALSE, queried |-> TRUE, failed |-> TRUE]
         ELSE LET ds == {Dependency(file.names[i], Star, SourceString(UbuntuName))
                            : i \in 1..Len(file.names)}
              IN  [cache |-> cache, outcome |-> "returned",
                   yielded |-> IF ds = {} THEN <<>>
                               ELSE <<Package(dep.package, VersionCoerce(<<"0">>),
                                              SourceString(dep.source), ds)>>,
                   lookedUp |-> FALSE, queried |-> TRUE, failed |-> FALSE]
    ELSE LET r == ubuntu_packages(cache, dep.package, apt)
             InSpec(p) == Matches(p.version, dep.semantic_version)
         IN  [cache |-> r.cache,
              outcome |-> IF r.raised THEN "raised" ELSE "returned",
              yielded |-> IF r.raised THEN <<>> ELSE SelectSeq(r.value, InSpec),
              lookedUp |-> TRUE, queried |-> r.queried,
              failed |-> r.queried /\ apt.fails]

\* resolve without lines 83-84, the check of the source
resolveAnySource(cache, dep, apt, file) == resolveUbuntu(cache, dep, apt, file)

\* lines 82-104
resolve(cache, dep, apt, file) ==
    IF dep.source # UbuntuName
    THEN [cache |-> cache, outcome |-> "raised", yielded |-> <<>>,
          lookedUp |-> FALSE, queried |-> FALSE, failed |-> FALSE]
    ELSE resolveUbuntu(cache, dep, apt, file)

\* ---- the inputs ----
Names == {"libc6", "zlib1g", "libssl"}
Paths == {"/lib/libz.so"}
Specs == {Star, [op |-> ">=", ver |-> 2], [op |-> "<", ver |-> 2]}

UbuntuDependencies(names) ==
    {Dependency(n, c, SourceString(UbuntuName)) : n \in names, c \in Specs}
OtherDependencies ==
    {Dependency(n, c, SourceString("pip")) : n \in Names \cup Paths, c \in Specs}

V1 == VersionLine(<<"1">>)
V2 == VersionLine(<<"2">>)
V2Epoch == VersionLine(<<"1", ":", "2", "-", "1">>)
DepLibc == DependsLine(<<EntryLibc>>)
DepGcc == DependsLine(<<EntryGcc, EntryEpoch>>)

AptOutputs ==
    { <<>>,
      <<V1, DepLibc, OtherLine, V2Epoch, DepGcc>>,
      <<OtherLine, V2>>,
      <<V1, OtherLine, V2, DepLibc>> }

AptAnswers == {AptFails} \cup {AptPrints(o) : o \in AptOutputs}

FileAnswers ==
    {FileFails(e) : e \in CaughtErrors}
        \cup {FileOwners(ns) : ns \in {<<>>, <<"zlib1g">>, <<"libc6", "libgcc-s1">>}}

InitResolve ==
    /\ contents = [name |-> "libc6", lines |-> <<>>]
    /\ IdleParse
    /\ IdleResolve
    /\ IdleMemo
    /\ IdleSort
    /\ IdleAugment

\* one call of resolve, consumed to its end by the caller
Resolve(dep, apt, file) ==
    LET r == resolve(lruPackages, dep, apt, file)
    IN  /\ dependency' = dep
        /\ lruPackages' = r.cache
        /\ outcome' = r.outcome
        /\ yielded' = r.yielded
        /\ lookedUp' = r.lookedUp
        /\ queried' = r.queried
        /\ failed' = r.failed
        /\ UNCHANGED <<varsParse, varsMemo, varsSort, varsAugment>>

\* the three kinds of argument; a backend that is not asked gives no answer
ResolveOtherSource == \E dep \in OtherDependencies : Resolve(dep, AptFails, FileFails(""))
ResolvePath ==
    \E dep \in UbuntuDependencies(Paths), file \in FileAnswers : Resolve(dep, AptFails, file)
ResolveName ==
    \E dep \in UbuntuDependencies(Names), apt \in AptAnswers : Resolve(dep, apt, FileFails(""))

NextResolve == ResolveOtherSource \/ ResolvePath \/ ResolveName

SpecResolve == InitResolve /\ [][NextResolve]_vars

(***************************************************************************)
(* utils.file_to_package and utils._file_to_package_apt_file               *)
(***************************************************************************)
\* a line "package: filename" of `apt-file -x search`; the filename is the
\* sequence of its characters, of which only the number matters
AptFileLine(package, filename) == [package |-> package, filename |-> filename]

\* lines 104-111: the package of the first line with the shortest filename
RECURSIVE SelectShortest(_, _)
SelectShortest(lines, selected) ==
    IF lines = <<>> THEN selected
    ELSE SelectShortest(Tail(lines),
            IF selected = <<>> \/ Len(selected[1].filename) > Len(Head(lines).filename)
            THEN <<Head(lines)>> ELSE selected)

SupportedArchs == {"amd64", "i386"}

\* lines 97-119, the function under the lru_cache: [raised, value]
apt_file_uncached(arch, answer) ==
    LET selected == SelectShortest(answer, <<>>)
    IN  IF arch \notin SupportedArchs \/ selected = <<>>
        THEN [raised |-> TRUE, value |-> ""]
        ELSE [raised |-> FALSE, value |-> selected[1].package]

\* lines 96-97: the memoized call: [cache, raised, value, queried]
file_to_package_apt_file(cache, filename, arch, answer) ==
    LET key == [filename |-> filename, arch |-> arch]
    IN  IF key \in CacheKeys(cache)
        THEN [cache |-> CacheTouch(cache, key), raised |-> FALSE,
              value |-> cache[CacheIndex(cache, key)].value, queried |-> FALSE]
        ELSE LET r == apt_file_uncached(arch, answer)
             IN  [cache |-> IF r.raised THEN cache
                            ELSE CacheInsert(cache, FileCacheSize, CacheEntry(key, r.value, <<>>)),
                  raised |-> r.raised, value |-> r.value,
                  queried |-> arch \in SupportedArchs]

\* lines 121-124: [outer, inner, raised, value, queried]
file_to_package(outer, inner, filename, arch, answer) ==
    LET key == [filename |-> <<filename>>, arch |-> arch]
    IN  IF key \in CacheKeys(outer)
        THEN [outer |-> CacheTouch(outer, key), inner |-> inner, raised |-> FALSE,
              value |-> outer[CacheIndex(outer, key)].value, queried |-> FALSE]
        ELSE LET r == file_to_package_apt_file(inner, <<"/", filename, "$">>, arch, answer)
             IN  [outer |-> IF r.raised THEN outer
                            ELSE CacheInsert(outer, FileCacheSize, CacheEntry(key, r.value, <<>>)),
                  inner |-> r.cache, raised |-> r.raised, value |-> r.value,
                  queried |-> r.queried]

(***************************************************************************)
(* The memoized lookups called one after another                           *)
(***************************************************************************)
NameUniverse == <<"libc6", "zlib1g", "libssl", "bash", "libgcc-s1">>
MemoNames == {NameUniverse[i] : i \in 1..(PackagesCacheSize + 1)}
MemoAptAnswers == {AptFails, AptPrints(<<>>), AptPrints(<<V1, DepLibc>>)}

FileUniverse == <<"libz.so", "libc.so", "libm.so", "libssl.so", "ld.so">>
Filenames == {FileUniverse[i] : i \in 1..(FileCacheSize + 1)}
Archs == {"amd64", "arm64"}
FileKeys == {[filename |-> <<f>>, arch |-> a] : f \in Filenames, a \in Archs}
AptFileAnswers ==
    { <<>>,
      <<AptFileLine("zlib1g", <<"/", "lib", "/", "libz.so">>)>>,
      <<AptFileLine("zlib1g-dev", <<"/", "usr", "/", "lib", "/", "libz.so">>),
        AptFileLine("libc6", <<"/", "lib", "/", "libz.so">>)>> }

\* a call for key k returned `value`: the watched key's history restarts, and
\* any other key counts once the watched key has returned
HistoryAfter(hist, k, value) ==
    IF k = hist.key THEN [hist EXCEPT !.value = <<value>>, !.since = {}]
    ELSE IF hist.value = <<>> THEN hist
    ELSE [hist EXCEPT !.since = @ \cup {k}]

\* the record of a call of fn for key k that gave r, against the history before it
CallRecord(hist, fn, k, r) ==
    [fn |-> fn, raised |-> r.raised, queried |-> r.queried,
     hadMemo |-> k = hist.key /\ hist.value # <<>>,
     sameAsMemo |-> k = hist.key /\ hist.value = <<r.value>>,
     since |-> IF k = hist.key THEN Cardinality(hist.since) ELSE 0]

InitMemo ==
    /\ contents = [name |-> "libc6", lines |-> <<>>]
    /\ IdleParse
    /\ IdleResolve
    /\ lruFile = <<>>
    /\ lruAptFile = <<>>
    /\ call = NoCall
    /\ \/ history = NoHistory("ubuntu_packages", NameUniverse[1])
       \/ history = NoHistory("file_to_package", [filename |-> <<FileUniverse[1]>>, arch |-> "amd64"])
    /\ IdleSort
    /\ IdleAugment

CallUbuntuPackages(package_name, answer) ==
    LET r == ubuntu_packages(lruPackages, package_name, answer)
    IN  /\ lruPackages' = r.cache
        /\ call' = CallRecord(history, "ubuntu_packages", package_name, r)
        /\ history' = IF r.raised THEN history ELSE HistoryAfter(history, package_name, r.value)
        /\ UNCHANGED <<varsParse, dependency, outcome, yielded, lookedUp, queried, failed,
                       lruFile, lruAptFile, varsSort, varsAugment>>

CallFileToPackage(filename, arch, answer) ==
    LET r == file_to_package(lruFile, lruAptFile, filename, arch, answer)
        key == [filename |-> <<filename>>, arch |-> arch]
    IN  /\ lruFile' = r.outer
        /\ lruAptFile' = r.inner
        /\ call' = CallRecord(history, "file_to_package", key, r)
        /\ history' = IF r.raised THEN history ELSE HistoryAfter(history, key, r.value)
        /\ UNCHANGED <<varsParse, varsResolve, varsSort, varsAugment>>

\* The two functions share no state, so a behaviour calls the one it watches;
\* the keys of a function are treated alike, so it watches the first.
NextMemo ==
    \/ /\ history.fn = "ubuntu_packages"
       /\ \E n \in MemoNames, answer \in MemoAptAnswers : CallUbuntuPackages(n, answer)
    \/ /\ history.fn = "file_to_package"
       /\ \E f \in Filenames, a \in Archs, answer \in AptFileAnswers :
            CallFileToPackage(f, a, answer)

SpecMemo == InitMemo /\ [][NextMemo]_vars

(***************************************************************************)
(* The order of resolvers                                                  *)
(***************************************************************************)
\* the resolver names, in the order of their strings
NameOrder == <<"cargo", "pip", "ubuntu", "vcpkg", "yarn">>
ResolverNames == Range(NameOrder)
Rank(n) == CHOOSE i \in 1..Len(NameOrder) : NameOrder[i] = n

\* DependencyResolver.__lt__: by name
BaseLt(self, other) == Rank(self) < Rank(other)

\* UbuntuResolver.__lt__
UbuntuLt(self, other) == FALSE

\* `x < y` on two resolvers
Lt(x, y) == IF x = UbuntuName THEN UbuntuLt(x, y) ELSE BaseLt(x, y)

\* sorted(): the length of the first run, and whether it descends
RECURSIVE RunLength(_, _, _)
RunLength(a, n, descending) ==
    IF n >= Len(a) THEN n
    ELSE IF Lt(a[n + 1], a[n]) = descending THEN RunLength(a, n + 1, descending)
    ELSE n

Reverse(a) == [i \in 1..Len(a) |-> a[Len(a) + 1 - i]]

\* sorted(): where the binary search puts `pivot` among a[l..r-1]
RECURSIVE BinarySlot(_, _, _, _)
BinarySlot(a, pivot, l, r) ==
    IF l >= r THEN l
    ELSE LET p == l + ((r - l) \div 2)
         IN  IF Lt(pivot, a[p]) THEN BinarySlot(a, pivot, l, p)
             ELSE BinarySlot(a, pivot, p + 1, r)

\* sorted(): binary insertion of a[start..] into the sorted a[1..start-1]
RECURSIVE BinarySort(_, _)
BinarySort(a, start) ==
    IF start > Len(a) THEN a
    ELSE LET pivot == a[start]
             l == BinarySlot(a, pivot, 1, start)
             moved == SubSeq(a, 1, l - 1) \o <<pivot>> \o SubSeq(a, l, start - 1)
                        \o SubSeq(a, start + 1, Len(a))
         IN  BinarySort(moved, start + 1)

\* sorted() of a short list
Sorted(a) ==
    IF Len(a) < 2 THEN a
    ELSE LET descending == Lt(a[2], a[1])
             n == RunLength(a, 2, descending)
             run == IF descending THEN Reverse(SubSeq(a, 1, n)) \o SubSeq(a, n + 1, Len(a))
                    ELSE a
         IN  BinarySort(run, n + 1)

\* the lists of distinct resolvers
ResolverLists ==
    {l \in SeqsUpTo(ResolverNames, Len(NameOrder)) :
        \A i, j \in 1..Len(l) : i # j => l[i] # l[j]}

InitSort ==
    /\ contents = [name |-> "libc6", lines |-> <<>>]
    /\ IdleParse
    /\ IdleResolve
    /\ IdleMemo
    /\ IdleAugment
    /\ resolvers \in ResolverLists
    /\ sortedResolvers = <<>>
    /\ pcSort = "unsorted"

SortResolvers ==
    /\ pcSort = "unsorted"
    /\ sortedResolvers' = Sorted(resolvers)
    /\ pcSort' = "sorted"
    /\ UNCHANGED <<resolvers, varsParse, varsResolve, varsMemo, varsAugment>>

NextSort == SortResolvers

SpecSort == InitSort /\ [][NextSort]_vars

(***************************************************************************)
(* The augmentation of a Package                                           *)
(***************************************************************************)
\* UbuntuResolver.can_update_dependencies that says yes to every Package
can_update_any(package) == TRUE

\* UbuntuResolver.can_update_dependencies
can_update_dependencies(package) == package.source # UbuntuName

\* UbuntuResolver.update_dependencies that replaces the set
update_dependencies_replacing(package, native_deps) ==
    [package EXCEPT !.dependencies = native_deps]

\* UbuntuResolver.update_dependencies
update_dependencies(package, native_deps) ==
    [package EXCEPT !.dependencies = package.dependencies \cup native_deps]

\* ---- the inputs ----
LibzPath == Dependency("/lib/libz.so", Star, SourceString(UbuntuName))
LibcPath == Dependency("/lib/libc.so", Star, SourceString(UbuntuName))
Libc6Dep == Dependency("libc6", [op |-> ">=", ver |-> 2], SourceString(UbuntuName))

NativeUniverse == {LibzPath, LibcPath, Libc6Dep}

\* the Packages ubuntu_packages builds
BuiltByUbuntuPackages ==
    UNION {Range(ubuntu_packages_uncached(n, a).value) : n \in Names, a \in AptAnswers}

\* the Packages the file-path branch of resolve builds
BuiltByResolve ==
    UNION {Range(resolveUbuntu(<<>>, d, AptFails, f).yielded)
            : d \in UbuntuDependencies(Paths), f \in FileAnswers}

\* Packages of other ecosystems
OwnDependency(src) == Dependency("serde", Star, SourceString(src))

BuiltByOthers ==
    UNION {{Package("cvedb", 1, SourceString(src), ds)
                : ds \in {{}, {LibzPath}, {LibzPath, OwnDependency(src)}}}
            : src \in {"pip", "cargo"}}

Candidates ==
    {[pkg |-> p, origin |-> "ubuntu_packages"] : p \in BuiltByUbuntuPackages}
        \cup {[pkg |-> p, origin |-> "resolve"] : p \in BuiltByResolve}
        \cup {[pkg |-> p, origin |-> "other"] : p \in BuiltByOthers}

InitAugment ==
    /\ contents = [name |-> "libc6", lines |-> <<>>]
    /\ IdleParse
    /\ IdleResolve
    /\ IdleMemo
    /\ IdleSort
    /\ \E c \in Candidates : pkg = c.pkg /\ origin = c.origin
    /\ nativeDeps \in SUBSET NativeUniverse
    /\ deps0 = pkg.dependencies
    /\ calls = 0
    /\ caller = ""

\* a caller applies update_dependencies to the Package
UpdateDependencies ==
    /\ calls < MaxCalls
    /\ pkg' = update_dependencies(pkg, nativeDeps)
    /\ calls' = calls + 1
    /\ caller' = "direct"
    /\ UNCHANGED <<origin, nativeDeps, deps0, varsParse, varsResolve, varsMemo, varsSort>>

\* the engine's augmentation pass reaches the Package with the Ubuntu resolver
AugmentationPass ==
    /\ calls < MaxCalls
    /\ can_update_dependencies(pkg)
    /\ pkg' = update_dependencies(pkg, nativeDeps)
    /\ calls' = calls + 1
    /\ caller' = "engine"
    /\ UNCHANGED <<origin, nativeDeps, deps0, varsParse, varsResolve, varsMemo, varsSort>>

NextAugment == UpdateDependencies \/ AugmentationPass

SpecAugment == InitAugment /\ [][NextAugment]_vars

(***************************************************************************)
(* Properties of resolve                                                   *)
(***************************************************************************)
UbuntuCall == outcome # "none" /\ dependency.source = UbuntuName

\* C1: every Package resolve(dep) yields for an "ubuntu" dep, a package name
\* or a file path, has dep's source, dep's package as name and a version that
\* satisfies dep's constraint.
C1_YieldedMatchDependency ==
    UbuntuCall =>
        \A i \in 1..Len(yielded) :
            /\ yielded[i].source = dependency.source
            /\ yielded[i].name = dependency.package
            /\ Matches(yielded[i].version, dependency.semantic_version)

\* the answer of `apt show -a` the result of the last call was computed from
ServedLines == lruPackages[CacheIndex(lruPackages, dependency.package)].from

\* C2: for a package name, every version of a "Version: " line of the backend
\* output that satisfies dep's constraint is yielded, with or without a
\* "Depends: " line in its stanza.
C2_EveryVersionYielded ==
    (UbuntuCall /\ ~IsPath(dependency.package) /\ outcome = "returned") =>
        \A k \in 1..Len(ServedLines) :
            LET v == VersionCoerce(ubuntu_version(ServedLines[k].text))
            IN  (ServedLines[k].key = "Version" /\ Matches(v, dependency.semantic_version))
                    => \E i \in 1..Len(yielded) : yielded[i].version = v

\* C6: resolve(dep) for a dep of another source fails: it yields nothing, asks
\* no backend and leaves the lru_cache as it was, unread.
C6_OtherSourceFails ==
    [][dependency'.source # UbuntuName =>
            /\ outcome' = "raised"
            /\ yielded' = <<>>
            /\ ~queried'
            /\ ~lookedUp'
            /\ lruPackages' = lruPackages]_vars

\* a call for another source made while the cache holds an entry for its name
C6_Witness ==
    /\ outcome = "raised"
    /\ dependency.source = "pip"
    /\ dependency.package \in CacheKeys(lruPackages)

\* C7: when the external lookup fails during resolve(dep), resolve yields no
\* Package and ends normally.
C7_LookupFailureRecovered ==
    (UbuntuCall /\ failed) => (outcome = "returned" /\ yielded = <<>>)

(***************************************************************************)
(* Properties of the memoized lookups                                      *)
(***************************************************************************)
MaxSizeOf(fn) == IF fn = "ubuntu_packages" THEN PackagesCacheSize ELSE FileCacheSize

AnsweredFromMemo ==
    /\ ~call.queried
    /\ ~call.raised
    /\ call.sameAsMemo

C3_UbuntuSortsLast ==
    /\ \A other \in ResolverNames : ~Lt(UbuntuName, other)
    /\ (pcSort = "sorted" /\ UbuntuName \in Range(resolvers)) =>
            sortedResolvers[Len(sortedResolvers)] = UbuntuName

(***************************************************************************)
(* Properties of the augmentation                                          *)
(***************************************************************************)
\* C4: after any number n >= 1 of update_dependencies calls on a Package its
\* dependency set is the union of the set it had before the first call and its
\* native dependencies: nothing is lost, nothing is added twice, and a second
\* call changes nothing.
C4_UnionIdempotent ==
    /\ calls >= 1 => pkg.dependencies = deps0 \cup nativeDeps
    /\ deps0 \subseteq pkg.dependencies
    /\ Cardinality(pkg.dependencies) <= Cardinality(deps0) + Cardinality(nativeDeps)

\* two calls on a Package that had edges of its own, one of them native too
C4_Witness ==
    /\ calls >= 2
    /\ deps0 \cap nativeDeps # {}
    /\ deps0 \ nativeDeps # {}
    /\ nativeDeps \ deps0 # {}

\* C9: can_update_dependencies is false for every Package the Ubuntu resolver
\* builds (in ubuntu_packages, in the file-path branch of resolve) and true for
\* every Package of another ecosystem, so the augmentation pass only ever adds
\* native dependencies to Packages of other resolvers.
C9_OnlyOtherResolversPackages ==
    /\ origin \in {"ubuntu_packages", "resolve"} => ~can_update_dependencies(pkg)
    /\ origin = "other" => can_update_dependencies(pkg)
    /\ caller = "engine" => origin = "other"

\* the pass has augmented the Package of another resolver
C9_Witness ==
    /\ caller = "engine"
    /\ origin = "other"
    /\ pkg.dependencies # deps0

====
